---- MODULE Spec2Model ----
(***************************************************************************)
(* aircube: the RDBMS -> BigQuery task generator (RDBMSToBQGenerator), the *)
(* Airflow run of the task graph it builds, its merge-query builder and    *)
(* the DAG generator loop (update_dynamic_dag).                            *)
(*                                                                         *)
(* Strings assembled by the code from fixed pieces are kept as strings;    *)
(* SQL text assembled with str.join is kept as the sequence of its tokens, *)
(* separators included.  A string.Template whose text is not part of the   *)
(* sources is kept as the record of the arguments substituted into it.     *)
(***************************************************************************)
EXTENDS Integers, Sequences, FiniteSets, TLC

VARIABLES
    config,         \* the config dict given to RDBMSToBQGenerator.__init__
    gen,            \* generate_tasks: "pending", "returned" or "raised"
    tasks,          \* task_id -> the operator constructed for it
    edges,          \* <<upstream task_id, downstream task_id>>
    merge_query,    \* what __generate_merge_query did (NoQuery before it ran)
    gcs_exists,     \* the run's GCS folder <dataset>/<table>/<ts> exists
    ti,             \* task_id -> task instance state of the DAG run
    branch,         \* return value of the check task's callable
    bq_log,         \* BigQuery jobs executed by the run, in order
    config_files,   \* dag_generator: the discovered YAML files (parsed)
    dag_pc,         \* dag_generator: "loop", "call", "done" or "raised"
    dag_i,          \* dag_generator: number of loop iterations completed
    dag_config,     \* dag_generator: local `config` (index of the file, 0 = unbound)
    dag_id,         \* dag_generator: local `dag_id` (Unbound before assignment)
    dag_calls,      \* dag_generator: the dynamic_dag calls made, in order
    generator,      \* the generator object the dispatcher or a caller constructed
    schema_out,     \* what __generate_schema did (NoSchema before it ran)
    extract_query,  \* what __generate_extract_query returned (NoExtractQuery before)
    xt,             \* extract task id -> position and locals of its running callable
    local,          \* the worker's directory /tmp/<dataset>/<table>/<ts> and its files
    gcs             \* the run's GCS folder: existed beforehand, objects uploaded

gen_vars == <<config, gen, tasks, edges, merge_query>>
run_vars == <<gcs_exists, ti, branch, bq_log>>
dag_vars == <<config_files, dag_pc, dag_i, dag_config, dag_id, dag_calls>>
obj_vars == <<generator, schema_out, extract_query>>
ext_vars == <<xt, local, gcs>>
vars == <<gen_vars, run_vars, dag_vars, obj_vars, ext_vars>>

(***************************************************************************)
(* Bounds                                                                  *)
(***************************************************************************)
MaxConn == 2        \* connections of a multiple-connection dag
MaxKeys == 2        \* entries of source.unique_keys
MaxFields == 2      \* fields of assets/schema.json
MaxFiles == 2       \* config files found by the discovery
MaxBatches == 1     \* dataframes an extract query yields

None == "None"
Unbound == "<unbound>"

(***************************************************************************)
(* plugins.constants.types                                                 *)
(***************************************************************************)
SPARK == "SPARK"
AIRFLOW == "AIRFLOW"
APPEND == "APPEND"
UPSERT == "UPSERT"
DELSERT == "DELSERT"
TRUNCATE == "TRUNCATE"
MERGE == {UPSERT, DELSERT}
POSTGRES_TO_BQ == "POSTGRES_TO_BQ"
MYSQL_TO_BQ == "MYSQL_TO_BQ"
SPARK_KUBERNETES_OPERATOR == "spark-kubernetes-operator"
SPARK_KUBERNETES_SENSOR == "spark-kubernetes-sensor"
EXTENDED_SCHEMA == << [name |-> "load_timestamp", type |-> "TIMESTAMP"] >>
WRITE_APPEND == "WRITE_APPEND"
WRITE_TRUNCATE == "WRITE_TRUNCATE"

(***************************************************************************)
(* Sequence helpers                                                        *)
(***************************************************************************)
RECURSIVE SeqsUpTo(_, _)
SeqsUpTo(S, n) ==
    IF n = 0 THEN {<< >>}
    ELSE LET shorter == SeqsUpTo(S, n - 1)
         IN  shorter \cup {Append(s, e) : s \in {q \in shorter : Len(q) = n - 1}, e \in S}

\* sep.join(parts): the parts with the separator between neighbours
RECURSIVE Join(_, _)
Join(parts, sep) ==
    IF Len(parts) = 0 THEN << >>
    ELSE IF Len(parts) = 1 THEN <<parts[1]>>
    ELSE <<parts[1], sep>> \o Join(Tail(parts), sep)

(***************************************************************************)
(* RDBMSToBQGenerator.__init__                                             *)
(***************************************************************************)
ts_nodash == "{{ts_nodash}}"

\* A dataset or table name is kept as the sequence of its "_"-separated words.
RECURSIVE Name(_)
Name(words) ==
    IF Len(words) = 0 THEN ""
    ELSE IF Len(words) = 1 THEN words[1]
    ELSE words[1] \o "_" \o Name(Tail(words))

full_target_bq_table(cfg) ==
    cfg.project \o "." \o Name(cfg.dataset) \o "." \o Name(cfg.table)

full_target_bq_table_temp(cfg) ==
    cfg.project \o "." \o Name(cfg.dataset) \o "." \o Name(cfg.table)
        \o "_temp__" \o ts_nodash

(***************************************************************************)
(* RDBMSToBQGenerator.__generate_schema                                    *)
(* schema_file is assets/schema.json: whether open and json.load succeed,  *)
(* and the list they give.                                                 *)
(***************************************************************************)
SchemaFile(fields) == [readable |-> TRUE, fields |-> fields]
NoSchemaFile == [readable |-> FALSE, fields |-> << >>]

\* Mutant: every EXTENDED_SCHEMA entry is appended, named in the file or not.
generate_schema_ExtendAll(schema_file) ==
    IF ~schema_file.readable
    THEN [raised |-> TRUE, schema |-> << >>]
    ELSE [raised |-> FALSE, schema |-> schema_file.fields \o EXTENDED_SCHEMA]

generate_schema(schema_file) ==
    IF ~schema_file.readable
    THEN [raised |-> TRUE, schema |-> << >>]
    ELSE LET fields == {schema_file.fields[i].name : i \in DOMAIN schema_file.fields}
         IN  [raised |-> FALSE,
              schema |-> schema_file.fields \o
                         SelectSeq(EXTENDED_SCHEMA, LAMBDA d : d.name \notin fields)]

(***************************************************************************)
(* RDBMSToBQGenerator.__init__: the defaults set from the task type and    *)
(* the start window expansion                                              *)
(***************************************************************************)
NoGenerator ==
    [class |-> None, raised |-> FALSE, error |-> None, quoting |-> None,
     string_type |-> None, expansion_value |-> None, expansion_unit |-> None]

\* Mutant: the two dialects are swapped.
Dialect_Swapped(task_type) ==
    IF task_type = POSTGRES_TO_BQ THEN [quoting |-> "backtick", string_type |-> "CHAR"]
    ELSE IF task_type = MYSQL_TO_BQ THEN [quoting |-> "double quote", string_type |-> "TEXT"]
    ELSE [quoting |-> None, string_type |-> None]

\* quoting and string_type by task type; None when the type is not supported
Dialect(task_type) ==
    IF task_type = POSTGRES_TO_BQ THEN [quoting |-> "double quote", string_type |-> "TEXT"]
    ELSE IF task_type = MYSQL_TO_BQ THEN [quoting |-> "backtick", string_type |-> "CHAR"]
    ELSE [quoting |-> None, string_type |-> None]

StartWindowExpansion(cfg) ==
    IF cfg.expansion_value = None \/ cfg.expansion_unit = None
    THEN [value |-> "0", unit |-> "minutes"]
    ELSE [value |-> cfg.expansion_value, unit |-> cfg.expansion_unit]

RDBMSToBQGenerator(cfg) ==
    IF Dialect(cfg.type).quoting = None
    THEN [NoGenerator EXCEPT !.raised = TRUE, !.error = "Task type is not supported!"]
    ELSE [class |-> "RDBMSToBQGenerator", raised |-> FALSE, error |-> None,
          quoting |-> Dialect(cfg.type).quoting,
          string_type |-> Dialect(cfg.type).string_type,
          expansion_value |-> StartWindowExpansion(cfg).value,
          expansion_unit |-> StartWindowExpansion(cfg).unit]

(***************************************************************************)
(* RDBMSToBQGenerator.__generate_extract_query                             *)
(***************************************************************************)
DATABASE == "database"

\* An item of the select list: the quoted column and how it is selected
SelectItem(kind, quote, name, as_type) ==
    [kind |-> kind, quote |-> quote, name |-> name, as_type |-> as_type]

SELECT_COMMA == SelectItem(", ", "", "", "")

SelectedField(g, field) ==
    IF field.type = "STRING"
    THEN SelectItem("CAST", g.quoting, field.name, g.string_type)
    ELSE IF field.type = "TIMESTAMP"
    THEN SelectItem("CASE WHEN <= 1900-01-01 00:00:00", g.quoting, field.name, "")
    ELSE SelectItem("COLUMN", g.quoting, field.name, "")

\* Mutant: the database field is not among the excluded fields.
ExcludedFields_ExtendedOnly == {EXTENDED_SCHEMA[i].name : i \in DOMAIN EXTENDED_SCHEMA}

\* excluded_fields: the names of EXTENDED_SCHEMA, with DATABASE appended
ExcludedFields ==
    {EXTENDED_SCHEMA[i].name : i \in DOMAIN EXTENDED_SCHEMA} \cup {DATABASE}

SelectedFields(g, schema) ==
    LET kept == SelectSeq(schema, LAMBDA d : d.name \notin ExcludedFields)
    IN  Join([i \in 1..Len(kept) |-> SelectedField(g, kept[i])], SELECT_COMMA)

\* A connection name: the pieces of its text, the second being the dialect
\* marker.  Names numbered n compare as their numbers do.
ConnectionName(n) ==
    <<"shop" \o ToString(n) \o "_", IF n % 2 = 1 THEN "pg_" ELSE "mysql_", "replica">>

RECURSIVE Concat(_)
Concat(pieces) ==
    IF Len(pieces) = 0 THEN "" ELSE pieces[1] \o Concat(Tail(pieces))

\* str(connection).replace('pg_', '').replace('mysql_', '')
DatabaseOf(connection) ==
    Concat(SelectSeq(ConnectionName(connection), LAMBDA p : p \notin {"pg_", "mysql_"}))

\* The column added in front of FROM for a multiple-connection dag; kwargs
\* without a database (connection 0) add none.
DatabaseTag(g, connection) ==
    IF connection # 0
    THEN [present |-> TRUE, value |-> DatabaseOf(connection),
          alias |-> [quote |-> g.quoting, name |-> "database"]]
    ELSE [present |-> FALSE, value |-> "", alias |-> [quote |-> "", name |-> ""]]

\* <key> >= data_interval_start.subtract(<unit>=<value>) AND <key> < data_interval_end
Window(kind, quote, key, unit, value) ==
    [kind |-> kind, quote |-> quote, key |-> key, unit |-> unit, value |-> value]

OR == Window(" OR ", "", "", "", "")

\* Mutant: the filter is left out for the load method APPEND.
HasQueryFilter_MergeOnly(cfg) == cfg.load_method \in MERGE

HasQueryFilter(cfg) == cfg.load_method \in MERGE \/ cfg.load_method = APPEND

QueryFilter(g, cfg) ==
    IF HasQueryFilter(cfg)
    THEN [present |-> TRUE,
          condition |->
              Join([i \in 1..Len(cfg.timestamp_keys) |->
                       Window(">= start - expansion AND < end", g.quoting,
                              cfg.timestamp_keys[i], g.expansion_unit,
                              g.expansion_value)], OR)]
    ELSE [present |-> FALSE, condition |-> << >>]

SourceTableName(g, cfg) ==
    IF cfg.source_schema = None
    THEN <<[quote |-> g.quoting, name |-> Name(cfg.source_table)]>>
    ELSE <<[quote |-> g.quoting, name |-> cfg.source_schema],
           [quote |-> g.quoting, name |-> Name(cfg.source_table)]>>

NoExtractQuery ==
    [called |-> FALSE, selected_fields |-> << >>, load_timestamp |-> None,
     source_table_name |-> << >>,
     database |-> [present |-> FALSE, value |-> "", alias |-> [quote |-> "", name |-> ""]],
     where |-> [present |-> FALSE, condition |-> << >>], as_cte |-> FALSE]

generate_extract_query(g, cfg, schema, connection) ==
    [called |-> TRUE,
     selected_fields |-> SelectedFields(g, schema),
     load_timestamp |-> IF cfg.type = POSTGRES_TO_BQ THEN "CURRENT_TIMESTAMP"
                        ELSE "CURRENT_TIMESTAMP()",
     source_table_name |-> SourceTableName(g, cfg),
     database |-> DatabaseTag(g, connection),
     where |-> QueryFilter(g, cfg),
     as_cte |-> cfg.mode = SPARK]

(***************************************************************************)
(* RDBMSToBQGenerator.__generate_merge_query                               *)
(***************************************************************************)
Token(kind, name) == [kind |-> kind, name |-> name]

\* COALESCE(CAST(x.<key> as string), 'NULL') = COALESCE(CAST(y.<key> as string), 'NULL')
NullSafeEq(key) == Token("x.key <=> y.key", key)
\* x.<field> = y.<field>
UpdateField(name) == Token("x.field = y.field", name)
InsertField(name) == Token("field", name)
AND == Token(" AND ", "")
COMMA == Token(", ", "")

PartitionFilter(cfg) ==
    IF cfg.partition_field # None
    THEN "AND DATE(x." \o cfg.partition_field \o ") IN UNNEST(formatted_dates)"
    ELSE ""

\* The local temp_table_partition_date_query: assigned only when a partition
\* field is configured.
TempTablePartitionDateQuery(cfg) ==
    IF cfg.partition_field # None
    THEN [bound |-> TRUE,
          template |-> "TEMP_TABLE_PARTITION_DATE_QUERY",
          partition_field |-> cfg.partition_field,
          target_bq_table_temp |-> full_target_bq_table_temp(cfg)]
    ELSE [bound |-> FALSE, template |-> None, partition_field |-> None,
          target_bq_table_temp |-> None]

MergeSource(cfg) ==
    IF cfg.cte_merge THEN "cte_merge.sql" ELSE full_target_bq_table_temp(cfg)

TableCreationQueryType(cfg) ==
    IF cfg.cte_merge
    THEN "PARTITION BY TIMESTAMP_TRUNC(" \o cfg.partition_field \o ", DAY) AS"
    ELSE "COPY"

\* Mutant: only the first unique key is compared.
OnKeys_FirstKeyOnly(cfg) ==
    Join([i \in 1..(IF Len(cfg.unique_keys) = 0 THEN 0 ELSE 1) |->
             NullSafeEq(cfg.unique_keys[i])], AND)

OnKeys(cfg) ==
    Join([i \in 1..Len(cfg.unique_keys) |-> NullSafeEq(cfg.unique_keys[i])], AND)

InsertFields(schema) ==
    Join([i \in 1..Len(schema) |-> InsertField(schema[i].name)], COMMA)

UpdateFields(cfg, schema) ==
    IF cfg.load_method = UPSERT
    THEN Join([i \in 1..Len(schema) |-> UpdateField(schema[i].name)], COMMA)
    ELSE << >>

NoQuery ==
    [called |-> FALSE, raised |-> FALSE, template |-> None,
     prelude |-> [bound |-> FALSE, template |-> None, partition_field |-> None,
                  target_bq_table_temp |-> None],
     merge_target |-> None, merge_source |-> None, table_creation_query_type |-> None,
     on_keys |-> << >>, partition_filter |-> "", insert_fields |-> << >>,
     update_fields |-> << >>]

\* The value of `query` is the prelude followed by the substituted template;
\* reading the unbound prelude raises UnboundLocalError after the template
\* has been substituted.
generate_merge_query(cfg, schema) ==
    IF cfg.load_method \in {DELSERT, UPSERT}
    THEN [called |-> TRUE,
          raised |-> ~TempTablePartitionDateQuery(cfg).bound,
          template |-> IF cfg.load_method = DELSERT THEN "DELSERT_QUERY" ELSE "UPSERT_QUERY",
          prelude |-> TempTablePartitionDateQuery(cfg),
          merge_target |-> full_target_bq_table(cfg),
          merge_source |-> MergeSource(cfg),
          table_creation_query_type |-> TableCreationQueryType(cfg),
          on_keys |-> OnKeys(cfg),
          partition_filter |-> PartitionFilter(cfg),
          insert_fields |-> InsertFields(schema),
          update_fields |-> UpdateFields(cfg, schema)]
    ELSE [NoQuery EXCEPT !.called = TRUE]

(***************************************************************************)
(* RDBMSToBQGenerator.generate_tasks                                       *)
(***************************************************************************)
NA == "n/a"

Operator(class, table, write_disposition, xcom_pull, filename) ==
    [class |-> class, table |-> table, write_disposition |-> write_disposition,
     xcom_pull |-> xcom_pull, filename |-> filename, conn_id |-> 0,
     extract_query |-> NoExtractQuery]

\* source.connection: a str (is_list = FALSE, one name) or a list of names.
\* Connection names are numbered in their lexicographic order.
RECURSIVE Insert(_, _)
Insert(sorted, x) ==
    IF Len(sorted) = 0 THEN <<x>>
    ELSE IF x <= sorted[1] THEN <<x>> \o sorted
    ELSE <<sorted[1]>> \o Insert(Tail(sorted), x)

RECURSIVE Sorted(_)
Sorted(s) == IF Len(s) = 0 THEN << >> ELSE Insert(Sorted(Tail(s)), s[1])

ExtractId(index) == "extract_and_upload_to_gcs__" \o ToString(index)

\* filename = f'{filename}_{index+1}', reassigned on every iteration
RECURSIVE ExtractFileName(_, _)
ExtractFileName(cfg, index) ==
    IF index = 0 THEN Name(cfg.source_table)
    ELSE ExtractFileName(cfg, index - 1) \o "_" \o ToString(index)

\* The sql_hook of an extract task is kept as its connection id (0: no hook).
ExtractTask(filename, connection, query) ==
    [Operator("PythonOperator", NA, NA, NA, filename)
        EXCEPT !.conn_id = connection, !.extract_query = query]

\* enumerate(sorted(self.source_connection))
ConnectionOrder(names) == Sorted(names)

ExtractTasks(cfg, schema) ==
    LET g == RDBMSToBQGenerator(cfg)
    IN  IF ~cfg.connection.is_list
        THEN "extract_and_upload_to_gcs" :>
                 ExtractTask(Name(cfg.source_table), cfg.connection.names[1],
                             generate_extract_query(g, cfg, schema, 0))
        ELSE LET connections == ConnectionOrder(cfg.connection.names)
             IN  [id \in {ExtractId(i) : i \in 1..Len(connections)} |->
                     LET i == CHOOSE k \in 1..Len(connections) : ExtractId(k) = id
                     IN  ExtractTask(ExtractFileName(cfg, i), connections[i],
                                     generate_extract_query(g, cfg, schema,
                                                            connections[i]))]

\* Mutant: the load truncates whatever the load method is.
WriteDisposition_Truncate(cfg) == WRITE_TRUNCATE

WriteDisposition(cfg) ==
    IF cfg.load_method = APPEND THEN WRITE_APPEND ELSE WRITE_TRUNCATE

\* Mutant: the condition on the load method is inverted.
DestinationProjectDatasetTable_Inverted(cfg) ==
    IF cfg.load_method \in MERGE
    THEN full_target_bq_table(cfg)
    ELSE full_target_bq_table_temp(cfg)

DestinationProjectDatasetTable(cfg) ==
    IF cfg.load_method \notin MERGE
    THEN full_target_bq_table(cfg)
    ELSE full_target_bq_table_temp(cfg)

LoadTask(cfg) ==
    "load_to_bq" :> Operator("GCSToBigQueryOperator",
                             DestinationProjectDatasetTable(cfg), WriteDisposition(cfg),
                             NA, NA)

CheckAndEndTasks ==
    ("check_if_file_exists_in_gcs" :> Operator("BranchPythonOperator", NA, NA, NA, NA))
    @@ ("end" :> Operator("EmptyOperator", NA, NA, NA, NA))

MergeTasks(cfg) ==
    ("merge_to_main_table" :>
         Operator("BigQueryInsertJobOperator", full_target_bq_table(cfg), NA, NA, NA))
    @@ ("delete_temp_table" :>
         Operator("BigQueryDeleteTableOperator", DestinationProjectDatasetTable(cfg),
                  NA, NA, NA))

\* Mutant: delete is not set downstream of merge.
MergeFlow_NoDeleteEdge == {<<"load_to_bq", "merge_to_main_table">>}

\* load.set_downstream(merge); merge.set_downstream(delete)
MergeFlow ==
    {<<"load_to_bq", "merge_to_main_table">>,
     <<"merge_to_main_table", "delete_temp_table">>}

\* Mutant: the extract tasks are not chained to the check task.
TaskFlow_NoExtractEdge(extract) ==
    {<<"check_if_file_exists_in_gcs", "load_to_bq">>,
     <<"check_if_file_exists_in_gcs", "end">>}

\* extract >> check >> [load, end]
TaskFlow(extract) ==
    {<<e, "check_if_file_exists_in_gcs">> : e \in extract}
    \cup {<<"check_if_file_exists_in_gcs", "load_to_bq">>,
          <<"check_if_file_exists_in_gcs", "end">>}

\* f'{dataset}-{table}'.replace('_', '-').replace('bronze-', ''): the words
\* joined with "-", without the words "bronze" that another word follows.
RECURSIVE Dashed(_)
Dashed(words) ==
    IF Len(words) = 0 THEN ""
    ELSE IF Len(words) = 1 THEN words[1]
    ELSE IF words[1] = "bronze" THEN Dashed(Tail(words))
    ELSE words[1] \o "-" \o Dashed(Tail(words))

spark_kubernetes_base_task_id(cfg) == Dashed(cfg.dataset \o cfg.table)

SparkOperatorId(cfg) ==
    spark_kubernetes_base_task_id(cfg) \o "-" \o SPARK_KUBERNETES_OPERATOR

SparkSensorId(cfg) ==
    spark_kubernetes_base_task_id(cfg) \o "-" \o SPARK_KUBERNETES_SENSOR

SparkTasks(cfg) ==
    (SparkOperatorId(cfg) :> Operator("SparkKubernetesOperator", NA, NA, NA, NA))
    @@ (SparkSensorId(cfg) :>
            Operator("SparkKubernetesSensor", NA, NA, SparkOperatorId(cfg), NA))

\* spark_kubernetes_operator_task >> spark_kubernetes_sensor_task
SparkFlow(cfg) == {<<SparkOperatorId(cfg), SparkSensorId(cfg)>>}

NoTasks == << >>

Outcome(status, t, e, q) ==
    [status |-> status, tasks |-> t, edges |-> e, merge_query |-> q]

generate_tasks_spark(cfg) ==
    IF ~cfg.connection.is_list
    THEN LET s == generate_schema(cfg.schema_file)
             q == generate_merge_query(cfg, s.schema)
         IN  IF s.raised THEN Outcome("raised", NoTasks, {}, NoQuery)
             ELSE IF q.raised THEN Outcome("raised", NoTasks, {}, q)
             ELSE Outcome("returned", SparkTasks(cfg), SparkFlow(cfg), q)
    ELSE Outcome("returned", NoTasks, {}, NoQuery)

generate_tasks_airflow(cfg) ==
    LET s == generate_schema(cfg.schema_file)
        q == generate_merge_query(cfg, s.schema)
        extract == ExtractTasks(cfg, s.schema)
        built == extract @@ CheckAndEndTasks @@ LoadTask(cfg)
    IN  IF s.raised THEN Outcome("raised", NoTasks, {}, NoQuery)
        ELSE IF cfg.load_method \in MERGE
        THEN IF q.raised
             THEN Outcome("raised", built, {}, q)
             ELSE Outcome("returned", built @@ MergeTasks(cfg),
                          MergeFlow \cup TaskFlow(DOMAIN extract), q)
        ELSE Outcome("returned", built, TaskFlow(DOMAIN extract), NoQuery)

generate_tasks(cfg) ==
    IF cfg.mode = SPARK THEN generate_tasks_spark(cfg)
    ELSE IF cfg.mode = AIRFLOW THEN generate_tasks_airflow(cfg)
    ELSE Outcome("returned", NoTasks, {}, NoQuery)

(***************************************************************************)
(* task_generator.generate_tasks: the dispatcher on config['type']         *)
(***************************************************************************)
BQ_TO_PARQUET == "BQ_TO_PARQUET"
GSHEET_TO_BQ == "GSHEET_TO_BQ"
RDBMS_TO_BQ == {POSTGRES_TO_BQ, MYSQL_TO_BQ}

\* A generator of another class; the tasks it builds are outside this model.
OtherGenerator(class) == [NoGenerator EXCEPT !.class = class]

Dispatched(g, out) == [generator |-> g, out |-> out]

\* Mutant: an unknown type falls through to the RDBMS generator.
task_generator_generate_tasks_NoElse(cfg) ==
    LET g == RDBMSToBQGenerator(cfg)
    IN  IF g.raised THEN Dispatched(g, Outcome("raised", NoTasks, {}, NoQuery))
        ELSE Dispatched(g, generate_tasks(cfg))

task_generator_generate_tasks(cfg) ==
    IF cfg.type \in RDBMS_TO_BQ
    THEN LET g == RDBMSToBQGenerator(cfg)
         IN  IF g.raised THEN Dispatched(g, Outcome("raised", NoTasks, {}, NoQuery))
             ELSE Dispatched(g, generate_tasks(cfg))
    ELSE IF cfg.type = BQ_TO_PARQUET
    THEN Dispatched(OtherGenerator("BQToParquetGenerator"),
                    Outcome("delegated", NoTasks, {}, NoQuery))
    ELSE IF cfg.type = GSHEET_TO_BQ
    THEN Dispatched(OtherGenerator("GSheetToBQGenerator"),
                    Outcome("delegated", NoTasks, {}, NoQuery))
    ELSE Dispatched(NoGenerator, Outcome("returned", NoTasks, {}, NoQuery))

(***************************************************************************)
(* RDBMSToBQGenerator.__check_folder_existence_in_gcs                      *)
(***************************************************************************)
\* Mutant: the test of `exists` is inverted.
check_folder_existence_in_gcs_Inverted(exists) ==
    IF exists THEN "end" ELSE "load_to_bq"

check_folder_existence_in_gcs(exists) ==
    IF ~exists THEN "end" ELSE "load_to_bq"

(***************************************************************************)
(* Configurations                                                          *)
(***************************************************************************)
Modes == {SPARK, AIRFLOW, "KUBERNETES"}
LoadMethods == {APPEND, UPSERT, DELSERT, TRUNCATE}
PartitionFields == {None, "created_at"}
KeyPool == {"id", "code"}
FieldPool ==
    {[name |-> "id", type |-> "INTEGER"], [name |-> "name", type |-> "STRING"],
     [name |-> "created_at", type |-> "TIMESTAMP"],
     [name |-> "load_timestamp", type |-> "DATETIME"],
     [name |-> "database", type |-> "STRING"]}
Datasets == {<<"bronze", "shop">>, <<"shop", "db">>}

IsInjective(s) == \A i, j \in DOMAIN s : s[i] = s[j] => i = j

Connections ==
    {[is_list |-> FALSE, names |-> <<1>>]}
    \cup {[is_list |-> TRUE, names |-> s] :
             s \in {q \in SeqsUpTo(1..MaxConn, MaxConn) : Len(q) > 0 /\ IsInjective(q)}}

Config(mode, connection, method, partition, keys, schema_file, cte, dataset) ==
    [mode |-> mode, connection |-> connection, load_method |-> method,
     partition_field |-> partition, unique_keys |-> keys,
     schema_file |-> schema_file, cte_merge |-> cte,
     project |-> "project", dataset |-> dataset, table |-> <<"orders">>,
     source_table |-> <<"orders">>, source_schema |-> None,
     type |-> POSTGRES_TO_BQ, expansion_value |-> None, expansion_unit |-> None,
     timestamp_keys |-> <<"updated_at">>]

DefaultSchemaFile ==
    SchemaFile(<< [name |-> "id", type |-> "INTEGER"],
                  [name |-> "name", type |-> "STRING"] >>)

DefaultConfig ==
    Config(AIRFLOW, [is_list |-> FALSE, names |-> <<1>>], APPEND, None, <<"id">>,
           DefaultSchemaFile, FALSE, <<"bronze", "shop">>)

DispatchTypes == {POSTGRES_TO_BQ, MYSQL_TO_BQ, BQ_TO_PARQUET, GSHEET_TO_BQ, "MSSQL_TO_BQ"}

\* Configurations of the task-graph specification
GraphConfigs ==
    {[Config(m, c, l, p, <<"id">>, f, FALSE, d) EXCEPT !.type = t] :
        m \in Modes, c \in Connections, l \in LoadMethods, p \in PartitionFields,
        f \in {NoSchemaFile, DefaultSchemaFile}, d \in Datasets, t \in DispatchTypes}

\* Configurations of the merge-query specification
QueryConfigs ==
    {Config(AIRFLOW, [is_list |-> FALSE, names |-> <<1>>], l, p, k, SchemaFile(f), c,
            <<"bronze", "shop">>) :
        l \in LoadMethods, p \in PartitionFields, k \in SeqsUpTo(KeyPool, MaxKeys),
        f \in SeqsUpTo(FieldPool, MaxFields), c \in BOOLEAN}

GenIdle ==
    /\ config = DefaultConfig
    /\ gen = "idle"
    /\ tasks = NoTasks
    /\ edges = {}
    /\ merge_query = NoQuery

RunIdle ==
    /\ ti = << >>
    /\ branch = None
    /\ bq_log = << >>

NoSchema == [called |-> FALSE, raised |-> FALSE, error |-> None, schema |-> << >>]

ObjIdle ==
    /\ generator = NoGenerator
    /\ schema_out = NoSchema
    /\ extract_query = NoExtractQuery

NoDirectory == [exists |-> FALSE, files |-> {}]

ExtIdle ==
    /\ xt = << >>
    /\ local = NoDirectory
    /\ gcs = [before |-> FALSE, objects |-> {}]

DagIdle ==
    /\ config_files = << >>
    /\ dag_pc = "idle"
    /\ dag_i = 0
    /\ dag_config = 0
    /\ dag_id = Unbound
    /\ dag_calls = << >>

(***************************************************************************)
(* Task graph: generation, then one DAG run under Airflow's scheduler      *)
(***************************************************************************)
Init ==
    /\ config \in GraphConfigs
    /\ gen = "pending"
    /\ tasks = NoTasks
    /\ edges = {}
    /\ merge_query = NoQuery
    /\ gcs_exists \in BOOLEAN
    /\ RunIdle
    /\ DagIdle
    /\ ObjIdle
    /\ ExtIdle

GenerateTasks ==
    /\ gen = "pending"
    /\ LET d == task_generator_generate_tasks(config)
           out == d.out
       IN  /\ generator' = d.generator
           /\ gen' = out.status
           /\ tasks' = out.tasks
           /\ edges' = out.edges
           /\ merge_query' = out.merge_query
           /\ ti' = [t \in DOMAIN out.tasks |-> "none"]
    /\ UNCHANGED <<config, gcs_exists, branch, bq_log, dag_vars, schema_out, extract_query, ext_vars>>

Upstream(t) == {e[1] : e \in {d \in edges : d[2] = t}}
Downstream(t) == {e[2] : e \in {d \in edges : d[1] = t}}

\* trigger_rule = all_success, the default of every operator constructed
TaskStart(t) ==
    /\ gen = "returned"
    /\ ti[t] = "none"
    /\ \A u \in Upstream(t) : ti[u] = "success"
    /\ ti' = [ti EXCEPT ![t] = "running"]
    /\ UNCHANGED <<gen_vars, gcs_exists, branch, bq_log, dag_vars, obj_vars, ext_vars>>

TaskNotRun(t) ==
    /\ gen = "returned"
    /\ ti[t] = "none"
    /\ \/ /\ \E u \in Upstream(t) : ti[u] \in {"failed", "upstream_failed"}
          /\ ti' = [ti EXCEPT ![t] = "upstream_failed"]
       \/ /\ \A u \in Upstream(t) : ti[u] \notin {"failed", "upstream_failed"}
          /\ \E u \in Upstream(t) : ti[u] = "skipped"
          /\ ti' = [ti EXCEPT ![t] = "skipped"]
    /\ UNCHANGED <<gen_vars, gcs_exists, branch, bq_log, dag_vars, obj_vars, ext_vars>>

TaskFail(t) ==
    /\ gen = "returned"
    /\ ti[t] = "running"
    /\ ti' = [ti EXCEPT ![t] = "failed"]
    /\ UNCHANGED <<gen_vars, gcs_exists, branch, bq_log, dag_vars, obj_vars, ext_vars>>

\* __extract_and_upload_to_gcs: uploads the folder when the query yielded a batch
ExtractAndUploadToGcs(t, batches) ==
    /\ gen = "returned"
    /\ tasks[t].class = "PythonOperator"
    /\ ti[t] = "running"
    /\ gcs_exists' = (gcs_exists \/ batches > 0)
    /\ ti' = [ti EXCEPT ![t] = "success"]
    /\ UNCHANGED <<gen_vars, branch, bq_log, dag_vars, obj_vars, ext_vars>>

\* BranchPythonOperator: the direct downstream tasks other than the returned
\* task id are skipped
CheckIfFileExistsInGcs(t) ==
    /\ gen = "returned"
    /\ tasks[t].class = "BranchPythonOperator"
    /\ ti[t] = "running"
    /\ LET follow == check_folder_existence_in_gcs(gcs_exists)
       IN  /\ branch' = follow
           /\ ti' = [d \in DOMAIN ti |->
                        IF d = t THEN "success"
                        ELSE IF d \in Downstream(t) /\ d # follow THEN "skipped"
                        ELSE ti[d]]
    /\ UNCHANGED <<gen_vars, gcs_exists, bq_log, dag_vars, obj_vars, ext_vars>>

BigQueryJob(t) ==
    IF tasks[t].class = "GCSToBigQueryOperator"
    THEN <<[task |-> t, job |-> tasks[t].write_disposition, table |-> tasks[t].table]>>
    ELSE IF tasks[t].class = "BigQueryInsertJobOperator"
    THEN <<[task |-> t, job |-> "MERGE", table |-> tasks[t].table]>>
    ELSE IF tasks[t].class = "BigQueryDeleteTableOperator"
    THEN <<[task |-> t, job |-> "DELETE", table |-> tasks[t].table]>>
    ELSE << >>

TaskSucceed(t) ==
    /\ gen = "returned"
    /\ tasks[t].class \notin {"PythonOperator", "BranchPythonOperator"}
    /\ ti[t] = "running"
    /\ ti' = [ti EXCEPT ![t] = "success"]
    /\ bq_log' = bq_log \o BigQueryJob(t)
    /\ UNCHANGED <<gen_vars, gcs_exists, branch, dag_vars, obj_vars, ext_vars>>

Next ==
    \/ GenerateTasks
    \/ \E t \in DOMAIN tasks : TaskStart(t)
    \/ \E t \in DOMAIN tasks : TaskNotRun(t)
    \/ \E t \in DOMAIN tasks : TaskFail(t)
    \/ \E t \in DOMAIN tasks, batches \in 0..MaxBatches : ExtractAndUploadToGcs(t, batches)
    \/ \E t \in DOMAIN tasks : CheckIfFileExistsInGcs(t)
    \/ \E t \in DOMAIN tasks : TaskSucceed(t)

Spec == Init /\ [][Next]_vars

(***************************************************************************)
(* __generate_merge_query on its own, over more keys and schemas           *)
(***************************************************************************)
InitMerge ==
    /\ config \in QueryConfigs
    /\ gen = "pending"
    /\ tasks = NoTasks
    /\ edges = {}
    /\ merge_query = NoQuery
    /\ gcs_exists = FALSE
    /\ RunIdle
    /\ DagIdle
    /\ ObjIdle
    /\ ExtIdle

GenerateMergeQuery ==
    /\ gen = "pending"
    /\ LET q == generate_merge_query(config, generate_schema(config.schema_file).schema)
       IN  /\ merge_query' = q
           /\ gen' = IF q.raised THEN "raised" ELSE "returned"
    /\ UNCHANGED <<config, tasks, edges, run_vars, dag_vars, obj_vars, ext_vars>>

NextMerge == GenerateMergeQuery

SpecMerge == InitMerge /\ [][NextMerge]_vars

(***************************************************************************)
(* The constructor, __generate_schema and __generate_extract_query on      *)
(* their own: over schema files (SpecSelect) and over task types, load     *)
(* methods, timestamp keys and window expansions (SpecFilter)              *)
(***************************************************************************)
TaskTypes == {POSTGRES_TO_BQ, MYSQL_TO_BQ, "MSSQL_TO_BQ"}
ExpansionValues == {None, "30"}
ExpansionUnits == {None, "hours"}
TimestampKeyPool == {"created_at", "updated_at"}
SourceSchemas == {None, "public"}

SelectConfigs ==
    {[DefaultConfig EXCEPT !.type = t, !.schema_file = f] :
        t \in TaskTypes,
        f \in {NoSchemaFile} \cup {SchemaFile(q) : q \in SeqsUpTo(FieldPool, MaxFields)}}

FilterConfigs ==
    {[DefaultConfig EXCEPT !.type = t, !.mode = m, !.load_method = l,
                           !.expansion_value = v, !.expansion_unit = u,
                           !.timestamp_keys = k, !.source_schema = s] :
        t \in TaskTypes, m \in {SPARK, AIRFLOW}, l \in LoadMethods,
        v \in ExpansionValues, u \in ExpansionUnits,
        k \in SeqsUpTo(TimestampKeyPool, MaxKeys), s \in SourceSchemas}

QueryIdle ==
    /\ gen = "idle"
    /\ tasks = NoTasks
    /\ edges = {}
    /\ merge_query = NoQuery
    /\ gcs_exists = FALSE
    /\ RunIdle
    /\ DagIdle
    /\ ObjIdle
    /\ ExtIdle

InitSelect == config \in SelectConfigs /\ QueryIdle

InitFilter == config \in FilterConfigs /\ QueryIdle

Construct ==
    /\ gen = "idle"
    /\ generator = NoGenerator
    /\ generator' = RDBMSToBQGenerator(config)
    /\ UNCHANGED <<gen_vars, run_vars, dag_vars, schema_out, extract_query, ext_vars>>

GenerateSchema ==
    /\ gen = "idle"
    /\ generator.class = "RDBMSToBQGenerator"
    /\ ~schema_out.called
    /\ LET s == generate_schema(config.schema_file)
       IN  schema_out' = [called |-> TRUE, raised |-> s.raised,
                          error |-> IF s.raised THEN "Failed to generate schema!" ELSE None,
                          schema |-> s.schema]
    /\ UNCHANGED <<gen_vars, run_vars, dag_vars, generator, extract_query, ext_vars>>

\* connection is the database keyword argument (0: not given)
GenerateExtractQuery(connection) ==
    /\ gen = "idle"
    /\ schema_out.called
    /\ ~schema_out.raised
    /\ ~extract_query.called
    /\ extract_query' =
           generate_extract_query(generator, config, schema_out.schema, connection)
    /\ UNCHANGED <<gen_vars, run_vars, dag_vars, generator, schema_out, ext_vars>>

NextQuery ==
    \/ Construct
    \/ GenerateSchema
    \/ \E connection \in 0..MaxConn : GenerateExtractQuery(connection)

SpecSelect == InitSelect /\ [][NextQuery]_vars

SpecFilter == InitFilter /\ [][NextQuery]_vars

(***************************************************************************)
(* __extract_and_upload_to_gcs step by step: the extract tasks of one DAG   *)
(* run on one worker, then the check task and what follows it              *)
(***************************************************************************)
ExtractConfigs ==
    {Config(AIRFLOW, c, APPEND, None, <<"id">>, DefaultSchemaFile, FALSE, <<"bronze", "shop">>) :
        c \in {k \in Connections : k.names = [i \in 1..Len(k.names) |-> i]}}

NotStarted ==
    [pc |-> "fetch", batches |-> 0, index |-> 0, uploaded |-> FALSE,
     removed |-> FALSE, error |-> None]

InitExtract ==
    /\ config \in ExtractConfigs
    /\ LET d == task_generator_generate_tasks(config)
       IN  /\ generator = d.generator
           /\ gen = d.out.status
           /\ tasks = d.out.tasks
           /\ edges = d.out.edges
           /\ merge_query = d.out.merge_query
           /\ ti = [t \in DOMAIN d.out.tasks |-> "none"]
           /\ xt = [t \in {e \in DOMAIN d.out.tasks :
                               d.out.tasks[e].class = "PythonOperator"} |-> NotStarted]
    /\ gcs_exists \in BOOLEAN
    /\ gcs = [before |-> gcs_exists, objects |-> {}]
    /\ local = NoDirectory
    /\ branch = None
    /\ bq_log = << >>
    /\ schema_out = NoSchema
    /\ extract_query = NoExtractQuery
    /\ DagIdle

\* f'{filename}__{index}'
FileName(t, index) == tasks[t].filename \o "__" \o ToString(index)

Running(t, pc) == t \in DOMAIN xt /\ ti[t] = "running" /\ xt[t].pc = pc

\* The callable raises: the task instance fails
Raise(t, error) ==
    /\ xt' = [xt EXCEPT ![t].pc = "raised", ![t].error = error]
    /\ ti' = [ti EXCEPT ![t] = "failed"]

\* pl.read_database(..., iter_batches=True): the query yields `batches` dataframes
ReadDatabase(t, batches) ==
    /\ Running(t, "fetch")
    /\ xt' = [xt EXCEPT ![t].batches = batches,
                        ![t].pc = IF batches > 0 THEN "exists" ELSE "after_loop"]
    /\ UNCHANGED <<gen_vars, run_vars, dag_vars, obj_vars, local, gcs>>

\* dataframe_to_file: if not os.path.exists(dirname)
PathExists(t) ==
    /\ Running(t, "exists")
    /\ xt' = [xt EXCEPT ![t].pc = IF local.exists THEN "write" ELSE "makedirs"]
    /\ UNCHANGED <<gen_vars, run_vars, dag_vars, obj_vars, local, gcs>>

\* dataframe_to_file: os.makedirs(dirname), which raises when the directory exists
MakeDirs(t) ==
    /\ Running(t, "makedirs")
    /\ IF local.exists
       THEN /\ Raise(t, "FileExistsError")
            /\ UNCHANGED local
       ELSE /\ local' = [exists |-> TRUE, files |-> {}]
            /\ xt' = [xt EXCEPT ![t].pc = "write"]
            /\ UNCHANGED ti
    /\ UNCHANGED <<gen_vars, gcs_exists, branch, bq_log, dag_vars, obj_vars, gcs>>

\* dataframe_to_file: dataframe.to_parquet(path=filename), then the next batch
WriteFile(t) ==
    /\ Running(t, "write")
    /\ IF ~local.exists
       THEN /\ Raise(t, "FileNotFoundError")
            /\ UNCHANGED local
       ELSE /\ local' = [local EXCEPT !.files = @ \cup {FileName(t, xt[t].index)}]
            /\ xt' = [xt EXCEPT ![t].index = @ + 1,
                                ![t].pc = IF xt[t].index + 1 < xt[t].batches
                                          THEN "exists" ELSE "after_loop"]
            /\ UNCHANGED ti
    /\ UNCHANGED <<gen_vars, gcs_exists, branch, bq_log, dag_vars, obj_vars, gcs>>

\* Mutant: the callable never takes the 'Empty dataframe.' branch.
DataframeIsNone_Never(x) == FALSE

\* if dataframe is None: no iteration of the loop assigned it
DataframeIsNone(x) == x.batches = 0

EmptyDataframe(t) ==
    /\ Running(t, "after_loop")
    /\ DataframeIsNone(xt[t])
    /\ xt' = [xt EXCEPT ![t].pc = "returned"]
    /\ ti' = [ti EXCEPT ![t] = "success"]
    /\ UNCHANGED <<gen_vars, gcs_exists, branch, bq_log, dag_vars, obj_vars, local, gcs>>

\* upload_multiple_files_from_local(bucket, dirname): the files found in the
\* local directory go to the GCS folder; on a missing directory it raises or
\* uploads nothing.
UploadMultipleFilesFromLocal(t) ==
    /\ Running(t, "after_loop")
    /\ ~DataframeIsNone(xt[t])
    /\ \/ /\ local.exists
          /\ gcs' = [gcs EXCEPT !.objects = @ \cup local.files]
          /\ gcs_exists' = (gcs_exists \/ local.files # {})
          /\ xt' = [xt EXCEPT ![t].pc = "remove", ![t].uploaded = TRUE]
          /\ UNCHANGED ti
       \/ /\ ~local.exists
          /\ xt' = [xt EXCEPT ![t].pc = "remove", ![t].uploaded = TRUE]
          /\ UNCHANGED <<ti, gcs, gcs_exists>>
       \/ /\ ~local.exists
          /\ Raise(t, "FileNotFoundError")
          /\ UNCHANGED <<gcs, gcs_exists>>
    /\ UNCHANGED <<gen_vars, branch, bq_log, dag_vars, obj_vars, local>>

\* remote_multiple_files(dirname): shutil.rmtree of the shared directory
RemoteMultipleFiles(t) ==
    /\ Running(t, "remove")
    /\ IF local.exists
       THEN /\ local' = NoDirectory
            /\ xt' = [xt EXCEPT ![t].pc = "returned", ![t].removed = TRUE]
            /\ ti' = [ti EXCEPT ![t] = "success"]
       ELSE /\ Raise(t, "FileNotFoundError")
            /\ UNCHANGED local
    /\ UNCHANGED <<gen_vars, gcs_exists, branch, bq_log, dag_vars, obj_vars, gcs>>

NextExtract ==
    \/ \E t \in DOMAIN tasks : TaskStart(t)
    \/ \E t \in DOMAIN tasks : TaskNotRun(t)
    \/ \E t \in DOMAIN xt, batches \in 0..MaxBatches : ReadDatabase(t, batches)
    \/ \E t \in DOMAIN xt : PathExists(t)
    \/ \E t \in DOMAIN xt : MakeDirs(t)
    \/ \E t \in DOMAIN xt : WriteFile(t)
    \/ \E t \in DOMAIN xt : EmptyDataframe(t)
    \/ \E t \in DOMAIN xt : UploadMultipleFilesFromLocal(t)
    \/ \E t \in DOMAIN xt : RemoteMultipleFiles(t)
    \/ \E t \in DOMAIN tasks : CheckIfFileExistsInGcs(t)
    \/ \E t \in DOMAIN tasks : TaskSucceed(t)

SpecExtract == InitExtract /\ [][NextExtract]_vars

(***************************************************************************)
(* dags/dag_generator.py                                                   *)
(***************************************************************************)
BRONZE == "bronze"
SILVER == "silver"
Layers == {BRONZE, SILVER, "gold"}
DagKinds == {MYSQL_TO_BQ, POSTGRES_TO_BQ, "BQ_TO_PARQUET"}
Tables == {"orders", "users"}

\* A parsed YAML file: dag.type names a layer and a task type, which the code
\* tests with `in`
DagConfigs ==
    {[layer |-> l, kind |-> k, name |-> "shop", table |-> t] :
        l \in Layers, k \in DagKinds, t \in Tables}

DagIdOf(layer, c) == layer \o "_" \o c.name \o "." \o c.table

\* dynamic_dag(config, dag_id): the generate_dag call it makes, if any
dynamic_dag(c, id) ==
    IF c.kind = MYSQL_TO_BQ THEN "mysql_to_bq.generate_dag"
    ELSE IF c.kind = POSTGRES_TO_BQ THEN "postgres_to_bq.generate_dag"
    ELSE None

InitDag ==
    /\ GenIdle
    /\ gcs_exists = FALSE
    /\ RunIdle
    /\ config_files \in SeqsUpTo(DagConfigs, MaxFiles)
    /\ dag_pc = "loop"
    /\ dag_i = 0
    /\ dag_config = 0
    /\ dag_id = Unbound
    /\ dag_calls = << >>
    /\ ObjIdle
    /\ ExtIdle

\* One iteration of `for config_file in config_files()`
LoadConfigFile ==
    /\ dag_pc = "loop"
    /\ dag_i < Len(config_files)
    /\ LET c == config_files[dag_i + 1]
       IN  /\ dag_config' = dag_i + 1
           /\ dag_id' = IF c.layer = BRONZE THEN DagIdOf(BRONZE, c)
                        ELSE IF c.layer = SILVER THEN DagIdOf(SILVER, c)
                        ELSE dag_id
    /\ dag_i' = dag_i + 1
    /\ UNCHANGED <<config_files, dag_pc, dag_calls, gen_vars, run_vars, obj_vars, ext_vars>>

\* The statement after the loop: dynamic_dag(config=config, dag_id=dag_id)
CallDynamicDag ==
    /\ dag_pc = "loop"
    /\ dag_i = Len(config_files)
    /\ IF dag_config = 0 \/ dag_id = Unbound
       THEN /\ dag_pc' = "raised"
            /\ UNCHANGED dag_calls
       ELSE /\ dag_pc' = "done"
            /\ dag_calls' = Append(dag_calls,
                   [config |-> dag_config, dag_id |-> dag_id,
                    generate_dag |-> dynamic_dag(config_files[dag_config], dag_id)])
    /\ UNCHANGED <<config_files, dag_i, dag_config, dag_id, gen_vars, run_vars, obj_vars, ext_vars>>

NextDag == LoadConfigFile \/ CallDynamicDag

SpecDag == InitDag /\ [][NextDag]_vars

(***************************************************************************)
(* Properties                                                              *)
(***************************************************************************)
CHECK == "check_if_file_exists_in_gcs"
LOAD == "load_to_bq"
END == "end"
MERGE_TASK == "merge_to_main_table"
DELETE_TASK == "delete_temp_table"

Exists(t) == t \in DOMAIN tasks
Started(t) == t \in DOMAIN ti /\ ti[t] \in {"running", "success", "failed"}
Finished(t) == t \in DOMAIN ti /\ ti[t] \in {"success", "failed"}

\* The extract task ids of the configuration: one, or one per connection
ExpectedExtractIds ==
    IF config.connection.is_list
    THEN {ExtractId(i) : i \in 1..Len(config.connection.names)}
    ELSE {"extract_and_upload_to_gcs"}

MainTable == config.project \o "." \o Name(config.dataset) \o "." \o Name(config.table)
TempTable == MainTable \o "_temp__" \o ts_nodash

\* C1: in AIRFLOW mode, once the graph is built it holds the extract task(s)
\* of the configuration, and in every run check_if_file_exists_in_gcs has
\* started only if every extract task has finished, and load_to_bq or end has
\* started only if check_if_file_exists_in_gcs has finished.
C1_ExtractCheckLoadOrder ==
    (config.mode = AIRFLOW /\ Exists(CHECK)) =>
        /\ ExpectedExtractIds \subseteq DOMAIN tasks
        /\ Started(CHECK) => \A e \in ExpectedExtractIds : Finished(e)
        /\ Started(LOAD) => Finished(CHECK)
        /\ Started(END) => Finished(CHECK)

C1_Witness ==
    /\ config.mode = AIRFLOW
    /\ config.connection.is_list
    /\ Len(config.connection.names) = 2
    /\ gen = "returned"
    /\ Exists(LOAD)
    /\ ti[LOAD] = "running"
    /\ \A e \in ExpectedExtractIds : ti[e] = "success"

\* C2: the check task returns 'load_to_bq' exactly when the run's GCS folder
\* exists and 'end' exactly when it does not; once it has succeeded exactly
\* one of load_to_bq and end is selected (the other is skipped), and load_to_bq
\* and end never both start.
C2_ExclusiveBranch ==
    (config.mode = AIRFLOW /\ Exists(CHECK)) =>
        /\ ti[CHECK] = "success" =>
              /\ (branch = LOAD) <=> gcs_exists
              /\ (branch = END) <=> ~gcs_exists
              /\ (ti[LOAD] = "skipped") <=> (branch = END)
              /\ (ti[END] = "skipped") <=> (branch = LOAD)
        /\ ti[CHECK] # "success" => branch = None
        /\ ~(Started(LOAD) /\ Started(END))

C2_Witness ==
    /\ config.mode = AIRFLOW
    /\ gen = "returned"
    /\ Exists(CHECK)
    /\ ti[CHECK] = "success"
    /\ branch = LOAD
    /\ ti[LOAD] = "success"
    /\ ti[END] = "skipped"

\* C3 (as claimed): in AIRFLOW mode and for a supported task type, once
\* generate_tasks has ended with the schema read, merge_to_main_table and
\* delete_temp_table exist if and only if
\* the load method is UPSERT or DELSERT; when they exist they are chained
\* load_to_bq -> merge_to_main_table -> delete_temp_table, and otherwise
\* load_to_bq has no downstream task.
C3_MergeTasksIffMergeMethod ==
    (config.mode = AIRFLOW /\ gen \in {"returned", "raised"}
        /\ config.type \in {POSTGRES_TO_BQ, MYSQL_TO_BQ}
        /\ config.schema_file.readable) =>
        /\ (Exists(MERGE_TASK) /\ Exists(DELETE_TASK))
               <=> config.load_method \in {UPSERT, DELSERT}
        /\ Exists(MERGE_TASK) <=> Exists(DELETE_TASK)
        /\ Exists(MERGE_TASK) =>
              /\ Upstream(MERGE_TASK) = {LOAD}
              /\ Upstream(DELETE_TASK) = {MERGE_TASK}
              /\ Started(MERGE_TASK) => Finished(LOAD)
              /\ Started(DELETE_TASK) => Finished(MERGE_TASK)
        /\ (Exists(LOAD) /\ ~Exists(MERGE_TASK)) => Downstream(LOAD) = {}

\* C4: in an AIRFLOW-mode run in which the check task selected 'end', none of
\* load_to_bq, merge_to_main_table and delete_temp_table is ever executed,
\* load_to_bq is skipped, and no BigQuery job of the run has written a table.
C4_EndSkipsLoadChain ==
    (config.mode = AIRFLOW /\ branch = END) =>
        /\ \A t \in {LOAD, MERGE_TASK, DELETE_TASK} : ~Started(t)
        /\ ti[LOAD] = "skipped"
        /\ \A t \in {MERGE_TASK, DELETE_TASK} :
              Exists(t) => ti[t] \in {"none", "skipped"}
        /\ bq_log = << >>

C4_Witness ==
    /\ config.mode = AIRFLOW
    /\ branch = END
    /\ Exists(DELETE_TASK)
    /\ ti[LOAD] = "skipped"
    /\ ti[MERGE_TASK] = "skipped"
    /\ ti[DELETE_TASK] = "skipped"
    /\ ti[END] = "success"

\* C5 (as claimed): in SPARK mode with a single string connection and a
\* supported task type, once generate_tasks has ended with the schema read,
\* exactly two tasks exist, a
\* SparkKubernetesOperator and a SparkKubernetesSensor that pulls the
\* application name from that operator's XCom, the sensor downstream of the
\* operator and nothing else.
C5_SparkOperatorThenSensor ==
    (config.mode = SPARK /\ ~config.connection.is_list
        /\ config.type \in {POSTGRES_TO_BQ, MYSQL_TO_BQ}
        /\ gen \in {"returned", "raised"} /\ config.schema_file.readable) =>
        \E o, s \in DOMAIN tasks :
            /\ DOMAIN tasks = {o, s}
            /\ o # s
            /\ tasks[o].class = "SparkKubernetesOperator"
            /\ tasks[s].class = "SparkKubernetesSensor"
            /\ tasks[s].xcom_pull = o
            /\ edges = {<<o, s>>}
            /\ Started(s) => ti[o] = "success"

\* C6 (as claimed): when update_dynamic_dag has ended over config files that
\* each name a layer (bronze, silver) and a task type (MySQL, Postgres),
\* dynamic_dag has been called once per file, in order, with that file's
\* config and dag_id, so N files give N generate_dag calls.
C6_OneDagPerConfigFile ==
    (/\ dag_pc \in {"done", "raised"}
     /\ \A i \in DOMAIN config_files :
           /\ config_files[i].layer \in {BRONZE, SILVER}
           /\ config_files[i].kind \in {MYSQL_TO_BQ, POSTGRES_TO_BQ}) =>
        /\ Len(dag_calls) = Len(config_files)
        /\ \A i \in DOMAIN dag_calls :
              /\ dag_calls[i].config = i
              /\ dag_calls[i].dag_id = DagIdOf(config_files[i].layer, config_files[i])
              /\ dag_calls[i].generate_dag # None

\* C7 (as claimed): for DELSERT and UPSERT __generate_merge_query returns a
\* merge query without raising, with the partition-date prelude and the filter
\* 'AND DATE(x.<partition_field>) IN UNNEST(formatted_dates)' when
\* partition_field is configured, and with an empty filter when it is None.
C7_PartitionFilterOptional ==
    (merge_query.called /\ config.load_method \in {DELSERT, UPSERT}) =>
        /\ ~merge_query.raised
        /\ config.partition_field # None =>
              /\ merge_query.prelude.bound
              /\ merge_query.partition_filter =
                     "AND DATE(x." \o config.partition_field
                         \o ") IN UNNEST(formatted_dates)"
        /\ config.partition_field = None =>
              /\ ~merge_query.prelude.bound
              /\ merge_query.partition_filter = ""

\* s is the sequence <<item(1), sep, item(2), sep, ..., item(n)>>
IsJoined(s, n, item(_), sep) ==
    /\ Len(s) = IF n = 0 THEN 0 ELSE 2 * n - 1
    /\ \A i \in 1..n : s[2 * i - 1] = item(i)
    /\ \A i \in 1..(n - 1) : s[2 * i] = sep

\* C8: for DELSERT and for UPSERT the ON condition given to the template is
\* the AND-conjunction of one null-safe x/y equality per entry of
\* source.unique_keys, in configuration order (hence the same for both
\* methods); the insert list names each field of the schema once, in schema
\* order; for UPSERT the update list assigns each schema field from y to x.
C8_MergeKeyedOnUniqueKeys ==
    (merge_query.called /\ config.load_method \in {DELSERT, UPSERT}) =>
        LET keys == config.unique_keys
            schema == generate_schema(config.schema_file).schema
            eq(i) == [kind |-> "x.key <=> y.key", name |-> keys[i]]
            field(i) == [kind |-> "field", name |-> schema[i].name]
            assign(i) == [kind |-> "x.field = y.field", name |-> schema[i].name]
        IN  /\ IsJoined(merge_query.on_keys, Len(keys), eq,
                        [kind |-> " AND ", name |-> ""])
            /\ IsJoined(merge_query.insert_fields, Len(schema), field,
                        [kind |-> ", ", name |-> ""])
            /\ config.load_method = UPSERT =>
                  IsJoined(merge_query.update_fields, Len(schema), assign,
                           [kind |-> ", ", name |-> ""])

C8_Witness ==
    /\ merge_query.called
    /\ ~merge_query.raised
    /\ config.load_method = UPSERT
    /\ config.unique_keys = <<"code", "id">>
    /\ Len(config.schema_file.fields) = 2
    /\ Len(merge_query.on_keys) = 3

\* C9: in AIRFLOW mode the load task's destination is the temporary table
\* '<project>.<dataset>.<table>_temp__<ts>' exactly when the load method is
\* UPSERT or DELSERT and the main table otherwise; the delete_temp_table task,
\* when it exists, targets the temporary table, and no DELETE job of a run
\* hits the main table.
C9_LoadDestination ==
    (config.mode = AIRFLOW /\ Exists(LOAD)) =>
        /\ tasks[LOAD].table = TempTable <=> config.load_method \in {UPSERT, DELSERT}
        /\ tasks[LOAD].table = MainTable <=> config.load_method \notin {UPSERT, DELSERT}
        /\ Exists(DELETE_TASK) =>
              /\ tasks[DELETE_TASK].table = TempTable
              /\ tasks[DELETE_TASK].table # MainTable
        /\ \A i \in DOMAIN bq_log :
              bq_log[i].job = "DELETE" => bq_log[i].table = TempTable

C9_Witness ==
    /\ config.mode = AIRFLOW
    /\ config.load_method = DELSERT
    /\ gen = "returned"
    /\ Exists(DELETE_TASK)
    /\ ti[DELETE_TASK] = "success"
    /\ \E i \in DOMAIN bq_log : bq_log[i] = [task |-> DELETE_TASK, job |-> "DELETE",
                                             table |-> TempTable]

\* C10: the load task's write disposition is WRITE_APPEND if and only if the
\* load method is APPEND and WRITE_TRUNCATE otherwise; for the load methods
\* APPEND, UPSERT and DELSERT the load task does not truncate the main table,
\* and no load job of a run does.
C10_WriteDisposition ==
    (config.mode = AIRFLOW /\ Exists(LOAD)) =>
        /\ tasks[LOAD].write_disposition = WRITE_APPEND <=> config.load_method = APPEND
        /\ tasks[LOAD].write_disposition = WRITE_TRUNCATE <=> config.load_method # APPEND
        /\ config.load_method \in {APPEND, UPSERT, DELSERT} =>
              /\ ~(/\ tasks[LOAD].write_disposition = WRITE_TRUNCATE
                   /\ tasks[LOAD].table = MainTable)
              /\ \A i \in DOMAIN bq_log :
                    ~(bq_log[i].job = WRITE_TRUNCATE /\ bq_log[i].table = MainTable)

C10_Witness ==
    /\ config.mode = AIRFLOW
    /\ config.load_method = UPSERT
    /\ gen = "returned"
    /\ Exists(LOAD)
    /\ ti[LOAD] = "success"
    /\ \E i \in DOMAIN bq_log : bq_log[i] = [task |-> LOAD, job |-> WRITE_TRUNCATE,
                                             table |-> TempTable]

\* C11: constructing RDBMSToBQGenerator with a task type other than
\* POSTGRES_TO_BQ or MYSQL_TO_BQ raises 'Task type is not supported!' and
\* yields no generator object (no method of it ever runs); for POSTGRES_TO_BQ
\* identifiers are quoted with double quotes and strings cast to TEXT, for
\* MYSQL_TO_BQ identifiers are quoted with backticks and strings cast to CHAR.
C11_TaskTypeDefaults ==
    /\ generator # NoGenerator =>
          /\ config.type \notin {POSTGRES_TO_BQ, MYSQL_TO_BQ} =>
                /\ generator.raised
                /\ generator.error = "Task type is not supported!"
                /\ generator.class = None
          /\ config.type = POSTGRES_TO_BQ =>
                /\ ~generator.raised
                /\ generator.class = "RDBMSToBQGenerator"
                /\ generator.quoting = "double quote"
                /\ generator.string_type = "TEXT"
          /\ config.type = MYSQL_TO_BQ =>
                /\ ~generator.raised
                /\ generator.class = "RDBMSToBQGenerator"
                /\ generator.quoting = "backtick"
                /\ generator.string_type = "CHAR"
    /\ (schema_out.called \/ extract_query.called) =>
          config.type \in {POSTGRES_TO_BQ, MYSQL_TO_BQ}

C11_Witness ==
    /\ config.type = "MSSQL_TO_BQ"
    /\ generator.raised
    /\ generator.class = None

NamesOf(fields) == {fields[i].name : i \in DOMAIN fields}
ExtendedNames == {"load_timestamp"}

\* C12: __generate_schema returns the fields of schema.json unchanged and in
\* order, followed by exactly the EXTENDED_SCHEMA entries whose name is not in
\* the file, in their order; so a file without duplicate names gives a result
\* without duplicate names, a same-named file field stands in place of the
\* extended field, and every extended name is in the result; an unreadable
\* file gives the exception 'Failed to generate schema!'.
C12_SchemaExtended ==
    schema_out.called =>
        LET file == config.schema_file.fields
            out == schema_out.schema
            n == Len(file)
        IN  /\ ~config.schema_file.readable =>
                  /\ schema_out.raised
                  /\ schema_out.error = "Failed to generate schema!"
            /\ config.schema_file.readable =>
                  /\ ~schema_out.raised
                  /\ Len(out) >= n
                  /\ \A i \in 1..n : out[i] = file[i]
                  /\ \A i \in (n + 1)..Len(out) :
                        /\ \E j \in DOMAIN EXTENDED_SCHEMA : out[i] = EXTENDED_SCHEMA[j]
                        /\ out[i].name \notin NamesOf(file)
                  /\ \A j \in DOMAIN EXTENDED_SCHEMA :
                        EXTENDED_SCHEMA[j].name \notin NamesOf(file) =>
                            Cardinality({i \in (n + 1)..Len(out) :
                                            out[i] = EXTENDED_SCHEMA[j]}) = 1
                  /\ \A i, k \in (n + 1)..Len(out) :
                        i < k => \E a, b \in DOMAIN EXTENDED_SCHEMA :
                                    a < b /\ out[i] = EXTENDED_SCHEMA[a]
                                          /\ out[k] = EXTENDED_SCHEMA[b]
                  /\ (\A i, k \in 1..n : file[i].name = file[k].name => i = k) =>
                        (\A i, k \in DOMAIN out : out[i].name = out[k].name => i = k)
                  /\ \A i \in DOMAIN out : out[i].name \in NamesOf(file) => i <= n
                  /\ \A j \in DOMAIN EXTENDED_SCHEMA :
                        EXTENDED_SCHEMA[j].name \in NamesOf(out)

C12_Witness ==
    /\ schema_out.called
    /\ ~schema_out.raised
    /\ config.schema_file.fields =
           << [name |-> "id", type |-> "INTEGER"],
              [name |-> "load_timestamp", type |-> "DATETIME"] >>
    /\ schema_out.schema = config.schema_file.fields

\* C13: the select list of the extract query has one expression per schema
\* field whose name is neither an EXTENDED_SCHEMA name nor the database
\* field, in schema order: a STRING field cast to the dialect's string type,
\* a TIMESTAMP field in the CASE that floors it at '1900-01-01 00:00:00', any
\* other field as the quoted column; no extended field and no database field
\* is selected.
C13_SelectList ==
    extract_query.called =>
        LET kept == SelectSeq(schema_out.schema,
                              LAMBDA d : d.name \notin ExtendedNames /\ d.name # "database")
            quote == IF config.type = POSTGRES_TO_BQ THEN "double quote" ELSE "backtick"
            string_type == IF config.type = POSTGRES_TO_BQ THEN "TEXT" ELSE "CHAR"
            item(i) ==
                [kind |-> CASE kept[i].type = "STRING" -> "CAST"
                            [] kept[i].type = "TIMESTAMP" ->
                                   "CASE WHEN <= 1900-01-01 00:00:00"
                            [] OTHER -> "COLUMN",
                 quote |-> quote, name |-> kept[i].name,
                 as_type |-> IF kept[i].type = "STRING" THEN string_type ELSE ""]
        IN  /\ IsJoined(extract_query.selected_fields, Len(kept), item,
                        [kind |-> ", ", quote |-> "", name |-> "", as_type |-> ""])
            /\ \A i \in DOMAIN extract_query.selected_fields :
                  extract_query.selected_fields[i].name
                      \notin ExtendedNames \cup {"database"}

C13_Witness ==
    /\ extract_query.called
    /\ config.type = MYSQL_TO_BQ
    /\ config.schema_file.fields =
           << [name |-> "database", type |-> "STRING"],
              [name |-> "created_at", type |-> "TIMESTAMP"] >>
    /\ Len(extract_query.selected_fields) = 1
    /\ extract_query.selected_fields[1].kind = "CASE WHEN <= 1900-01-01 00:00:00"

\* C14: the extract query has a WHERE clause if and only if the load method is
\* APPEND, UPSERT or DELSERT; the clause is the OR of one half-open window per
\* timestamp key, key >= data_interval_start minus the expansion AND key <
\* data_interval_end, the expansion being the configured (value, unit), or
\* (0, minutes) when the value or the unit is None.
C14_WhereClause ==
    extract_query.called =>
        LET keys == config.timestamp_keys
            default == config.expansion_value = None \/ config.expansion_unit = None
            window(i) ==
                [kind |-> ">= start - expansion AND < end",
                 quote |-> IF config.type = POSTGRES_TO_BQ THEN "double quote"
                           ELSE "backtick",
                 key |-> keys[i],
                 unit |-> IF default THEN "minutes" ELSE config.expansion_unit,
                 value |-> IF default THEN "0" ELSE config.expansion_value]
        IN  /\ extract_query.where.present
                   <=> config.load_method \in {APPEND, UPSERT, DELSERT}
            /\ extract_query.where.present =>
                  IsJoined(extract_query.where.condition, Len(keys), window,
                           [kind |-> " OR ", quote |-> "", key |-> "", unit |-> "",
                            value |-> ""])
            /\ ~extract_query.where.present => extract_query.where.condition = << >>

C14_Witness ==
    /\ extract_query.called
    /\ config.load_method = APPEND
    /\ config.timestamp_keys = <<"updated_at", "created_at">>
    /\ config.expansion_value = "30"
    /\ config.expansion_unit = None
    /\ Len(extract_query.where.condition) = 3
    /\ extract_query.where.condition[1].unit = "minutes"

ExtractIds == {t \in DOMAIN tasks : tasks[t].class = "PythonOperator"}

\* The connection that stands at place i when the names are put in order
Ranked(names, i) ==
    CHOOSE c \in {names[k] : k \in DOMAIN names} :
        Cardinality({d \in {names[k] : k \in DOMAIN names} : d <= c}) = i

\* C15 (as claimed): for an AIRFLOW-mode configuration of a supported type
\* whose source.connection lists n connections, once generate_tasks has ended
\* with the schema read there are exactly n extract tasks, with the ids
\* extract_and_upload_to_gcs__1 .. __n and pairwise distinct file-name
\* prefixes; task i reads the connection at place i of the sorted names,
\* whatever the listed order, and its extract query carries that connection's
\* database value; all n tasks are upstream of the single check task.
C15_MultiConnectionExtractTasks ==
    (config.mode = AIRFLOW /\ config.connection.is_list
        /\ config.type \in {POSTGRES_TO_BQ, MYSQL_TO_BQ}
        /\ gen \in {"returned", "raised"} /\ config.schema_file.readable) =>
        LET names == config.connection.names
            n == Len(names)
        IN  /\ ExtractIds = {ExtractId(i) : i \in 1..n}
            /\ Cardinality(ExtractIds) = n
            /\ \A a, b \in ExtractIds :
                  tasks[a].filename = tasks[b].filename => a = b
            /\ \A i \in 1..n :
                  LET t == tasks[ExtractId(i)]
                      c == Ranked(names, i)
                  IN  /\ t.conn_id = c
                      /\ t.extract_query.called
                      /\ t.extract_query.database.present
                      /\ t.extract_query.database.value
                             = "shop" \o ToString(c) \o "_replica"
                      /\ t.extract_query.database.alias.name = "database"
            /\ Exists(CHECK)
            /\ tasks[CHECK].class = "BranchPythonOperator"
            /\ Upstream(CHECK) = ExtractIds
            /\ \A e \in ExtractIds : Downstream(e) = {CHECK}

\* C18: generate_tasks builds tasks only for mode AIRFLOW and for mode SPARK
\* with a single string connection; for SPARK with a list of connections and
\* for any mode outside SPARK and AIRFLOW it returns without raising, having
\* created no task, no edge and no query; and the dispatcher creates no
\* generator, builds nothing and raises nothing for a config type that is
\* neither an RDBMS_TO_BQ member, BQ_TO_PARQUET nor GSHEET_TO_BQ.
C18_NoTasksOutsideSupportedModes ==
    gen # "pending" =>
        LET supported == config.type \in {POSTGRES_TO_BQ, MYSQL_TO_BQ}
            chained == \/ config.mode = AIRFLOW
                       \/ (config.mode = SPARK /\ ~config.connection.is_list)
        IN  /\ (DOMAIN tasks # {} \/ edges # {}) => (supported /\ chained)
            /\ (supported /\ ~chained) =>
                  /\ gen = "returned"
                  /\ generator.class = "RDBMSToBQGenerator"
                  /\ DOMAIN tasks = {}
                  /\ edges = {}
                  /\ ~merge_query.called
                  /\ DOMAIN ti = {}
            /\ config.type \notin {POSTGRES_TO_BQ, MYSQL_TO_BQ, "BQ_TO_PARQUET",
                                   "GSHEET_TO_BQ"} =>
                  /\ gen = "returned"
                  /\ generator = NoGenerator
                  /\ DOMAIN tasks = {}
                  /\ edges = {}
                  /\ DOMAIN ti = {}

C18_Witness ==
    /\ config.type = MYSQL_TO_BQ
    /\ config.mode = SPARK
    /\ config.connection.is_list
    /\ Len(config.connection.names) = 2
    /\ gen = "returned"
    /\ generator.class = "RDBMSToBQGenerator"
    /\ DOMAIN tasks = {}

\* The files an extract task has written so far
WrittenBy(t) == {FileName(t, i) : i \in 0..(xt[t].index - 1)}

\* C16 (as claimed): under every interleaving of the extract tasks of one DAG
\* run on one worker, which stage their files in the same local directory,
\* every file an extract task has written is still in the directory or has
\* been uploaded to GCS, so that no directory removal deletes a file not yet
\* uploaded, and no extract task's write, upload or removal has failed for
\* want of the directory another task removed.
C16_SharedDirectorySafe ==
    \A t \in DOMAIN xt :
        /\ \A f \in WrittenBy(t) : f \in local.files \/ f \in gcs.objects
        /\ xt[t].error # "FileNotFoundError"

\* C17: an extract task whose query yields zero batches neither uploads nor
\* removes the local directory and adds nothing to GCS; a task that yields at
\* least one batch removes the directory only after its upload, and has done
\* both when it succeeds; in a run where every extract task yields zero
\* batches and the GCS folder did not exist beforehand, nothing is uploaded,
\* the check task selects 'end' and load_to_bq is never executed.
C17_EmptyExtractEndsRun ==
    LET read(t) == xt[t].pc # "fetch"
    IN  /\ \A t \in DOMAIN xt :
              /\ (read(t) /\ xt[t].batches = 0) =>
                    /\ ~xt[t].uploaded
                    /\ ~xt[t].removed
                    /\ xt[t].pc \in {"after_loop", "returned"}
                    /\ WrittenBy(t) = {}
              /\ (read(t) /\ xt[t].batches > 0) =>
                    /\ xt[t].removed => xt[t].uploaded
                    /\ ti[t] = "success" => (xt[t].uploaded /\ xt[t].removed)
        /\ (DOMAIN xt # {} /\ ~gcs.before
                /\ \A t \in DOMAIN xt : read(t) /\ xt[t].batches = 0) =>
              /\ gcs.objects = {}
              /\ ~gcs_exists
              /\ ti[CHECK] = "success" => (branch = END /\ ti[LOAD] = "skipped")
              /\ branch # LOAD
              /\ ~Started(LOAD)
              /\ bq_log = << >>

C17_Witness ==
    /\ Cardinality(DOMAIN xt) = 2
    /\ \A t \in DOMAIN xt : xt[t].pc = "returned" /\ xt[t].batches = 0
    /\ ~gcs.before
    /\ ti[CHECK] = "success"
    /\ branch = END
    /\ ti[LOAD] = "skipped"
    /\ ti[END] = "success"

====
